---- MODULE Spec2Model ----
(***************************************************************************)
(* Model of emitlog's BufferingWriter (writer.go): a per-request sink that  *)
(* buffers serialized zerolog records and forwards them to a final writer   *)
(* on a severity trigger, on overflow, on Flush, or at Finalize.            *)
(*                                                                          *)
(* A record is a sequence of tokens.  A token is one of the level markers    *)
(* the classifier searches for (the byte string "level":"<name>"), or "x",  *)
(* one byte that belongs to no marker.  Every call of Write tags its record *)
(* with the position of the call in the order of lock acquisitions, so that *)
(* two submissions of equal bytes are told apart in the output.             *)
(*                                                                          *)
(* Every method body runs between Lock and the deferred Unlock; the bodies  *)
(* are split at their reads and writes of the shared fields, so that mutual *)
(* exclusion is provided by the mutex and by nothing else.                  *)
(***************************************************************************)
EXTENDS Integers, Sequences, FiniteSets, TLC

\* Number of goroutines that call methods of the one sink.
NumThreads == 2

\* Total number of method calls made on the sink in one behaviour.
MaxOps == 3

\* The calls made where goroutines block in Lock
MaxLiveCalls == 2

\* The longest record, in tokens, whose level is parsed
MaxRecordLen == 2

Threads == 1..NumThreads

NoThread == 0

VARIABLES
    config,       \* bw.config (immutable after construction)
    buffer,       \* bw.buffer: the buffered records, in arrival order
    bufferSize,   \* bw.bufferSize
    shouldFlush,  \* bw.shouldFlush
    finalWriter,  \* the calls of bw.finalWriter.Write so far, each with its bytes
    mu,           \* bw.mu: the goroutine that holds the lock, or NoThread
    pc,           \* per goroutine: position in the method it executes
    frame,        \* per goroutine: the call's arguments and locals
    pre,          \* per goroutine: the fields as they were when it took the lock
    hist,         \* the calls made so far, in order of lock acquisition
    env,          \* what the callers log, and whether the final writer can fail
    mw            \* the request of the middleware that owns the sink, if one does

vars ==
    <<config, buffer, bufferSize, shouldFlush, finalWriter, mu, pc, frame, pre, hist, env,
      mw>>

----------------------------------------------------------------------------
\* Records and their byte lengths

\* len of the bytes a token stands for: `"level":"info"` is 14 bytes long
TokLen(tok) ==
    CASE tok = "x" -> 1
      [] tok \in {"info", "warn"} -> 14
      [] OTHER -> 15

RECURSIVE RecLen(_)
RecLen(data) ==
    IF data = <<>> THEN 0 ELSE TokLen(Head(data)) + RecLen(Tail(data))

\* The records the goroutines log.
Records ==
    { <<"info">>, <<"warn">>, <<"error">>, <<"fatal">>, <<"panic">> }

\* bytes.Contains(data, marker)
Contains(data, marker) == \E i \in 1..Len(data) : data[i] = marker

\* buffer.Len(): the number of bytes held
RECURSIVE BufLen(_)
BufLen(buf) ==
    IF buf = <<>> THEN 0 ELSE RecLen(Head(buf).data) + BufLen(Tail(buf))

\* All records a sequence of finalWriter.Write calls delivered, in order
RECURSIVE Flat(_)
Flat(calls) ==
    IF calls = <<>> THEN <<>> ELSE Head(calls) \o Flat(Tail(calls))

----------------------------------------------------------------------------
\* Configuration

SaveRates == {0, 5, 100}

\* 28 bytes hold exactly two info or warn records; 0 makes every write overflow
BufferSizes == {0, 28}

Configs ==
    [ SaveRate : SaveRates,
      BufferingEnabled : BOOLEAN,
      FlushOnError : BOOLEAN,
      FlushOnWarn : BOOLEAN,
      BufferSize : BufferSizes ]

\* Values rand.Float64()*100 can yield; it lies in [0, 100)
RandVals == {0, 4, 5, 99}

----------------------------------------------------------------------------
\* Pure parts of the methods

\* The chain of tests with the error test moved to the front
parseLogLevelErrorFirst(data) ==
    IF Contains(data, "error") THEN "error"
    ELSE IF Contains(data, "trace") THEN "trace"
    ELSE IF Contains(data, "debug") THEN "debug"
    ELSE IF Contains(data, "info") THEN "info"
    ELSE IF Contains(data, "warn") THEN "warn"
    ELSE IF Contains(data, "fatal") THEN "fatal"
    ELSE IF Contains(data, "panic") THEN "panic"
    ELSE "info"

parseLogLevel(data) ==
    IF Contains(data, "trace") THEN "trace"
    ELSE IF Contains(data, "debug") THEN "debug"
    ELSE IF Contains(data, "info") THEN "info"
    ELSE IF Contains(data, "warn") THEN "warn"
    ELSE IF Contains(data, "error") THEN "error"
    ELSE IF Contains(data, "fatal") THEN "fatal"
    ELSE IF Contains(data, "panic") THEN "panic"
    ELSE "info"

\* The switch with its first case reduced to zerolog.ErrorLevel
ShouldFlushNowErrorOnly(cfg, level) ==
    CASE level = "error" -> cfg.FlushOnError
      [] level = "warn" -> cfg.FlushOnWarn
      [] OTHER -> FALSE

\* The switch of Write that sets shouldFlushNow
ShouldFlushNow(cfg, level) ==
    CASE level \in {"error", "fatal", "panic"} -> cfg.FlushOnError
      [] level = "warn" -> cfg.FlushOnWarn
      [] OTHER -> FALSE

\* The overflow test with >= for >
OverflowsWhenFull(size, data, cfg) == size + RecLen(data) >= cfg.BufferSize

\* The overflow test without len(p)
OverflowsIgnoringRecord(size, data, cfg) == size > cfg.BufferSize

\* The overflow test that takes BufferSize <= 0 for "no limit"
OverflowsPositiveOnly(size, data, cfg) ==
    cfg.BufferSize > 0 /\ size + RecLen(data) > cfg.BufferSize

\* The overflow test of Write
Overflows(size, data, cfg) == size + RecLen(data) > cfg.BufferSize

\* ShouldSaveOnSuccess with the SaveRate tests ahead of the BufferingEnabled test
ShouldSaveOnSuccessRateFirst(cfg, r) ==
    IF cfg.SaveRate <= 0 THEN FALSE
    ELSE IF cfg.SaveRate >= 100 THEN TRUE
    ELSE IF ~cfg.BufferingEnabled THEN TRUE
    ELSE r < cfg.SaveRate

\* ShouldSaveOnSuccess, r being the value rand.Float64()*100 would yield
ShouldSaveOnSuccess(cfg, r) ==
    IF ~cfg.BufferingEnabled THEN TRUE
    ELSE IF cfg.SaveRate <= 0 THEN FALSE
    ELSE IF cfg.SaveRate >= 100 THEN TRUE
    ELSE r < cfg.SaveRate

\* The decision of Finalize without its !success branch
ShouldSaveSampled(success, cfg, r) == ShouldSaveOnSuccess(cfg, r)

\* The decision of Finalize: shouldSave
ShouldSave(success, cfg, r) ==
    IF ~success THEN TRUE ELSE ShouldSaveOnSuccess(cfg, r)

----------------------------------------------------------------------------
\* State after NewBufferingWriter

NoEntry == [id |-> 0, data |-> <<>>]

\* bufErr: the final writer failed on the buffer's bytes; err: the error returned
NoFrame ==
    [op |-> "none", p |-> NoEntry, success |-> FALSE, shouldSave |-> FALSE,
     bufErr |-> FALSE, err |-> FALSE]

NoPre == [buffer |-> <<>>, finalWriter |-> <<>>, shouldFlush |-> FALSE, bufferSize |-> 0]

\* A final writer that accepts every byte, and callers that log Records
Reliable == [records |-> Records, canFail |-> FALSE]

\* The results finalWriter.Write(bytes) can have: all of the bytes and no error,
\* or, where the final writer can fail, an error after a part of them
Outcomes(bytes) ==
    {[out |-> bytes, ok |-> TRUE]}
        \cup (IF env.canFail
              THEN {[out |-> SubSeq(bytes, 1, k), ok |-> FALSE] :
                        k \in 0..(IF Len(bytes) = 0 THEN 0 ELSE Len(bytes) - 1)}
              ELSE {})

\* The sink is used directly by its callers, not through the middleware
NoMiddleware == [pc |-> "off", statusCode |-> 200, success |-> TRUE]

InitWith(cfgs, e, m) ==
    /\ config \in cfgs
    /\ env = e
    /\ mw = m
    /\ buffer = <<>>
    /\ bufferSize = 0
    /\ shouldFlush = FALSE
    /\ finalWriter = <<>>
    /\ mu = NoThread
    /\ pc = [t \in Threads |-> "idle"]
    /\ frame = [t \in Threads |-> NoFrame]
    /\ pre = [t \in Threads |-> NoPre]
    /\ hist = <<>>

Init == InitWith(Configs, Reliable, NoMiddleware)

----------------------------------------------------------------------------
\* bw.mu.Lock() and the deferred bw.mu.Unlock()

\* A Lock that excludes nobody
CanLockAlways == TRUE

CanLock == mu = NoThread

Snapshot ==
    [buffer |-> buffer, finalWriter |-> finalWriter,
     shouldFlush |-> shouldFlush, bufferSize |-> bufferSize]

\* A goroutine calls a method and passes bw.mu.Lock()
Enter(t, f, first) ==
    /\ pc[t] = "idle"
    /\ CanLock
    /\ mu' = t
    /\ pc' = [pc EXCEPT ![t] = first]
    /\ frame' = [frame EXCEPT ![t] = f]
    /\ pre' = [pre EXCEPT ![t] = Snapshot]
    /\ hist' = Append(hist, f)
    /\ UNCHANGED <<config, buffer, bufferSize, shouldFlush, finalWriter, env>>

Unlock(t) ==
    /\ pc[t] = "unlock"
    /\ mu' = NoThread
    /\ pc' = [pc EXCEPT ![t] = "idle"]
    /\ frame' = [frame EXCEPT ![t] = NoFrame]
    /\ pre' = [pre EXCEPT ![t] = NoPre]
    /\ UNCHANGED <<config, buffer, bufferSize, shouldFlush, finalWriter, hist, env, mw>>

Goto(t, next) == pc' = [pc EXCEPT ![t] = next]

----------------------------------------------------------------------------
\* Write(p)

\* The frame of a call Write(p), p being the bytes of data
WriteFrame(data) ==
    [NoFrame EXCEPT !.op = "write", !.p = [id |-> Len(hist) + 1, data |-> data]]

WriteCall(t) ==
    /\ Len(hist) < MaxOps
    /\ \E data \in env.records : Enter(t, WriteFrame(data), "w_check")
    /\ UNCHANGED mw

\* Write without its test of bw.shouldFlush
WriteCheckIgnoresFlag(t) ==
    /\ pc[t] = "w_check"
    /\ Goto(t, "w_decide")
    /\ UNCHANGED <<config, buffer, bufferSize, shouldFlush, finalWriter, mu, frame, pre, hist, env, mw>>

\* if bw.shouldFlush { return bw.finalWriter.Write(p) }
WriteCheck(t) ==
    /\ pc[t] = "w_check"
    /\ Goto(t, IF shouldFlush THEN "w_direct" ELSE "w_decide")
    /\ UNCHANGED <<config, buffer, bufferSize, shouldFlush, finalWriter, mu, frame, pre, hist, env, mw>>

\* level, shouldFlushNow, the overflow test, and bw.shouldFlush = true
WriteDecide(t) ==
    /\ pc[t] = "w_decide"
    /\ LET data == frame[t].p.data
           trigger == ShouldFlushNow(config, parseLogLevel(data))
       IN  IF trigger \/ Overflows(bufferSize, data, config)
           THEN /\ shouldFlush' = TRUE
                /\ Goto(t, "w_flushbuf")
           ELSE /\ shouldFlush' = shouldFlush
                /\ Goto(t, "w_append")
    /\ UNCHANGED <<config, buffer, bufferSize, finalWriter, mu, frame, pre, hist, env, mw>>

\* Write that resets the buffer without writing it out
WriteFlushBufferDrops(t) ==
    /\ pc[t] = "w_flushbuf"
    /\ Goto(t, IF BufLen(buffer) > 0 THEN "w_reset" ELSE "w_direct")
    /\ UNCHANGED <<config, buffer, bufferSize, shouldFlush, finalWriter, mu, frame, pre, hist, env, mw>>

\* if bw.buffer.Len() > 0 { bw.finalWriter.Write(bw.buffer.Bytes()) ...
WriteFlushBuffer(t) ==
    /\ pc[t] = "w_flushbuf"
    /\ IF BufLen(buffer) > 0
       THEN /\ \E res \in Outcomes(buffer) :
                  /\ finalWriter' = Append(finalWriter, res.out)
                  /\ frame' = [frame EXCEPT ![t].bufErr = ~res.ok]
            /\ Goto(t, "w_reset")
       ELSE /\ UNCHANGED <<finalWriter, frame>>
            /\ Goto(t, "w_direct")
    /\ UNCHANGED <<config, buffer, bufferSize, shouldFlush, mu, pre, hist, env, mw>>

\* Write without bw.buffer.Reset()
WriteResetKeeps(t) ==
    /\ pc[t] = "w_reset"
    /\ Goto(t, "w_direct")
    /\ UNCHANGED <<config, buffer, bufferSize, shouldFlush, finalWriter, mu, frame, pre, hist, env, mw>>

\* ... bw.buffer.Reset() }
WriteReset(t) ==
    /\ pc[t] = "w_reset"
    /\ buffer' = <<>>
    /\ Goto(t, "w_direct")
    /\ UNCHANGED <<config, bufferSize, shouldFlush, finalWriter, mu, frame, pre, hist, env, mw>>

\* return bw.finalWriter.Write(p)
WriteDirect(t) ==
    /\ pc[t] = "w_direct"
    /\ \E res \in Outcomes(<<frame[t].p>>) :
          /\ finalWriter' = Append(finalWriter, res.out)
          /\ frame' = [frame EXCEPT ![t].err = ~res.ok]
    /\ Goto(t, "unlock")
    /\ UNCHANGED <<config, buffer, bufferSize, shouldFlush, mu, pre, hist, env, mw>>

\* Write without bw.bufferSize += n
WriteAppendUncounted(t) ==
    /\ pc[t] = "w_append"
    /\ buffer' = Append(buffer, frame[t].p)
    /\ Goto(t, "unlock")
    /\ UNCHANGED <<config, bufferSize, shouldFlush, finalWriter, mu, frame, pre, hist, env, mw>>

\* n, err = bw.buffer.Write(p); bw.bufferSize += n
WriteAppend(t) ==
    /\ pc[t] = "w_append"
    /\ buffer' = Append(buffer, frame[t].p)
    /\ bufferSize' = bufferSize + RecLen(frame[t].p.data)
    /\ Goto(t, "unlock")
    /\ UNCHANGED <<config, shouldFlush, finalWriter, mu, frame, pre, hist, env, mw>>

----------------------------------------------------------------------------
\* Flush()

FlushCall(t) ==
    /\ Len(hist) < MaxOps
    /\ Enter(t, [NoFrame EXCEPT !.op = "flush"], "fl_write")
    /\ UNCHANGED mw

\* Flush without its test of bw.buffer.Len()
FlushWriteUnguarded(t) ==
    /\ pc[t] = "fl_write"
    /\ finalWriter' = Append(finalWriter, buffer)
    /\ Goto(t, "fl_reset")
    /\ UNCHANGED <<config, buffer, bufferSize, shouldFlush, mu, frame, pre, hist, env, mw>>

\* if bw.buffer.Len() > 0 { bw.finalWriter.Write(bw.buffer.Bytes()) ...
FlushWrite(t) ==
    /\ pc[t] = "fl_write"
    /\ IF BufLen(buffer) > 0
       THEN /\ \E res \in Outcomes(buffer) :
                  /\ finalWriter' = Append(finalWriter, res.out)
                  /\ frame' = [frame EXCEPT ![t].bufErr = ~res.ok]
            /\ Goto(t, "fl_reset")
       ELSE /\ UNCHANGED <<finalWriter, frame>>
            /\ Goto(t, "fl_set")
    /\ UNCHANGED <<config, buffer, bufferSize, shouldFlush, mu, pre, hist, env, mw>>

\* Flush without bw.buffer.Reset()
FlushResetKeeps(t) ==
    /\ pc[t] = "fl_reset"
    /\ Goto(t, "fl_set")
    /\ UNCHANGED <<config, buffer, bufferSize, shouldFlush, finalWriter, mu, frame, pre, hist, env, mw>>

\* Flush that keeps the buffer when the final writer returned an error
FlushResetUnlessFailed(t) ==
    /\ pc[t] = "fl_reset"
    /\ buffer' = IF frame[t].bufErr THEN buffer ELSE <<>>
    /\ Goto(t, "fl_set")
    /\ UNCHANGED <<config, bufferSize, shouldFlush, finalWriter, mu, frame, pre, hist, env, mw>>

\* ... bw.buffer.Reset() }
FlushReset(t) ==
    /\ pc[t] = "fl_reset"
    /\ buffer' = <<>>
    /\ Goto(t, "fl_set")
    /\ UNCHANGED <<config, bufferSize, shouldFlush, finalWriter, mu, frame, pre, hist, env, mw>>

\* bw.shouldFlush = true
FlushSet(t) ==
    /\ pc[t] = "fl_set"
    /\ shouldFlush' = TRUE
    /\ Goto(t, "unlock")
    /\ UNCHANGED <<config, buffer, bufferSize, finalWriter, mu, frame, pre, hist, env, mw>>

----------------------------------------------------------------------------
\* Finalize(success)

FinalizeCall(t) ==
    /\ Len(hist) < MaxOps
    /\ \E s \in BOOLEAN :
          Enter(t, [NoFrame EXCEPT !.op = "finalize", !.success = s], "fin_check")
    /\ UNCHANGED mw

\* if bw.shouldFlush { return }
FinalizeCheck(t) ==
    /\ pc[t] = "fin_check"
    /\ Goto(t, IF shouldFlush THEN "unlock" ELSE "fin_decide")
    /\ UNCHANGED <<config, buffer, bufferSize, shouldFlush, finalWriter, mu, frame, pre, hist, env, mw>>

\* Finalize whose sampling decision takes bw.mu again, which the goroutine
\* already holds: sync.RWMutex is not reentrant
FinalizeDecideRelocks(t) ==
    /\ pc[t] = "fin_decide"
    /\ CanLock
    /\ \E r \in RandVals :
          frame' = [frame EXCEPT ![t].shouldSave = ShouldSave(frame[t].success, config, r)]
    /\ Goto(t, "fin_write")
    /\ UNCHANGED <<config, buffer, bufferSize, shouldFlush, finalWriter, mu, pre, hist, env, mw>>

\* shouldSave := bw.ShouldSaveOnSuccess(), whatever success is
FinalizeDecideSampledOnly(t) ==
    /\ pc[t] = "fin_decide"
    /\ \E r \in RandVals :
          frame' = [frame EXCEPT ![t].shouldSave = ShouldSaveOnSuccess(config, r)]
    /\ Goto(t, "fin_write")
    /\ UNCHANGED <<config, buffer, bufferSize, shouldFlush, finalWriter, mu, pre, hist, env, mw>>

\* shouldSave := !success || bw.ShouldSaveOnSuccess()
FinalizeDecide(t) ==
    /\ pc[t] = "fin_decide"
    /\ \E r \in RandVals :
          frame' = [frame EXCEPT ![t].shouldSave = ShouldSave(frame[t].success, config, r)]
    /\ Goto(t, "fin_write")
    /\ UNCHANGED <<config, buffer, bufferSize, shouldFlush, finalWriter, mu, pre, hist, env, mw>>

\* Finalize that clears the buffer without the write
FinalizeWriteSkipped(t) ==
    /\ pc[t] = "fin_write"
    /\ Goto(t, "fin_reset")
    /\ UNCHANGED <<config, buffer, bufferSize, shouldFlush, finalWriter, mu, frame, pre, hist, env, mw>>

\* if shouldSave && bw.buffer.Len() > 0 { bw.finalWriter.Write(bw.buffer.Bytes()) }
FinalizeWrite(t) ==
    /\ pc[t] = "fin_write"
    /\ IF frame[t].shouldSave /\ BufLen(buffer) > 0
       THEN \E res \in Outcomes(buffer) :
               /\ finalWriter' = Append(finalWriter, res.out)
               /\ frame' = [frame EXCEPT ![t].bufErr = ~res.ok]
       ELSE UNCHANGED <<finalWriter, frame>>
    /\ Goto(t, "fin_reset")
    /\ UNCHANGED <<config, buffer, bufferSize, shouldFlush, mu, pre, hist, env, mw>>

\* bw.buffer.Reset()
FinalizeReset(t) ==
    /\ pc[t] = "fin_reset"
    /\ buffer' = <<>>
    /\ Goto(t, "unlock")
    /\ UNCHANGED <<config, bufferSize, shouldFlush, finalWriter, mu, frame, pre, hist, env, mw>>

----------------------------------------------------------------------------

Next ==
    \E t \in Threads :
        \/ WriteCall(t)
        \/ WriteCheck(t)
        \/ WriteDecide(t)
        \/ WriteFlushBuffer(t)
        \/ WriteReset(t)
        \/ WriteDirect(t)
        \/ WriteAppend(t)
        \/ FlushCall(t)
        \/ FlushWrite(t)
        \/ FlushReset(t)
        \/ FlushSet(t)
        \/ FinalizeCall(t)
        \/ FinalizeCheck(t)
        \/ FinalizeDecide(t)
        \/ FinalizeWrite(t)
        \/ FinalizeReset(t)
        \/ Unlock(t)

Spec == Init /\ [][Next]_vars

----------------------------------------------------------------------------
\* The sink over a final writer whose Write can return an error

\* Sampling is not at issue here: SaveRate is 0 or 100 and buffering is enabled
ErrConfigs == {c \in Configs : c.BufferingEnabled /\ c.SaveRate \in {0, 100}}

Failing == [records |-> Records, canFail |-> TRUE]

InitErr == InitWith(ErrConfigs, Failing, NoMiddleware)

SpecErr == InitErr /\ [][Next]_vars

----------------------------------------------------------------------------
\* The sink with a buffer of at most one byte, and callers that also log an empty
\* record and a record of one byte without a level marker

SmallBufferSizes == {-1, 0, 1}

SmallConfigs ==
    [ SaveRate : {0, 100},
      BufferingEnabled : {TRUE},
      FlushOnError : BOOLEAN,
      FlushOnWarn : BOOLEAN,
      BufferSize : SmallBufferSizes ]

ShortRecords == { <<>>, <<"x">> }

InitSmall ==
    InitWith(SmallConfigs, [records |-> Records \cup ShortRecords, canFail |-> FALSE],
             NoMiddleware)

SpecSmall == InitSmall /\ [][Next]_vars

----------------------------------------------------------------------------
\* A fresh sink and its first Write, over every record of a few tokens:
\* the parts of a zerolog line that parseLogLevel can tell apart

\* The seven level fields, a level field parseLogLevel does not know, and a
\* byte of payload
Tokens == {"trace", "debug", "info", "warn", "error", "fatal", "panic", "bogus", "x"}

TokenRecords == UNION { [1..n -> Tokens] : n \in 0..MaxRecordLen }

ClassifyBufferSizes == {100}

ClassifyConfigs ==
    [ SaveRate : {100},
      BufferingEnabled : {TRUE},
      FlushOnError : BOOLEAN,
      FlushOnWarn : BOOLEAN,
      BufferSize : ClassifyBufferSizes ]

InitClassify ==
    InitWith(ClassifyConfigs, [records |-> TokenRecords, canFail |-> FALSE], NoMiddleware)

\* The first Write of the sink
FirstWriteCall(t) ==
    /\ hist = <<>>
    /\ \E data \in env.records : Enter(t, WriteFrame(data), "w_check")
    /\ UNCHANGED mw

NextClassify ==
    \E t \in Threads :
        \/ FirstWriteCall(t)
        \/ WriteCheck(t)
        \/ WriteDecide(t)
        \/ WriteFlushBuffer(t)
        \/ WriteDirect(t)
        \/ WriteAppend(t)
        \/ Unlock(t)

SpecClassify == InitClassify /\ [][NextClassify]_vars

----------------------------------------------------------------------------
\* The sink built with BufferingEnabled false, over every kind of SaveRate

DisabledSaveRates == {-1, 0, 5, 100}

DisabledConfigs ==
    [ SaveRate : DisabledSaveRates,
      BufferingEnabled : {FALSE},
      FlushOnError : BOOLEAN,
      FlushOnWarn : {FALSE},
      BufferSize : {28} ]

InitDisabled == InitWith(DisabledConfigs, Reliable, NoMiddleware)

SpecDisabled == InitDisabled /\ [][Next]_vars

----------------------------------------------------------------------------
\* Goroutines that block in bw.mu.Lock() until the lock is free, under a fair
\* scheduler and a final writer whose Write returns

LiveConfigs ==
    [ SaveRate : {5},
      BufferingEnabled : {TRUE},
      FlushOnError : BOOLEAN,
      FlushOnWarn : {FALSE},
      BufferSize : {28} ]

LiveRecords == { <<"info">>, <<"error">> }

InitLive ==
    InitWith(LiveConfigs, [records |-> LiveRecords, canFail |-> FALSE], NoMiddleware)

\* The goroutines blocked in bw.mu.Lock()
Waiting == {t \in Threads : pc[t] = "lock"}

FirstStep(op) ==
    CASE op = "write" -> "w_check"
      [] op = "flush" -> "fl_write"
      [] op = "finalize" -> "fin_check"

\* A goroutine calls Write, Flush or Finalize and reaches bw.mu.Lock()
LiveCall(t) ==
    /\ pc[t] = "idle"
    /\ Len(hist) + Cardinality(Waiting) < MaxLiveCalls
    /\ \E f \in {[NoFrame EXCEPT !.op = "write", !.p = [id |-> 0, data |-> data]] :
                    data \in env.records}
             \cup {[NoFrame EXCEPT !.op = "flush"]}
             \cup {[NoFrame EXCEPT !.op = "finalize", !.success = s] : s \in BOOLEAN} :
          frame' = [frame EXCEPT ![t] = f]
    /\ pc' = [pc EXCEPT ![t] = "lock"]
    /\ UNCHANGED <<config, buffer, bufferSize, shouldFlush, finalWriter, mu, pre, hist, env, mw>>

\* bw.mu.Lock() returns
LiveLock(t) ==
    /\ pc[t] = "lock"
    /\ CanLock
    /\ mu' = t
    /\ pc' = [pc EXCEPT ![t] = FirstStep(frame[t].op)]
    /\ LET f == IF frame[t].op = "write"
                THEN [frame[t] EXCEPT !.p.id = Len(hist) + 1]
                ELSE frame[t]
       IN  /\ frame' = [frame EXCEPT ![t] = f]
           /\ hist' = Append(hist, f)
    /\ pre' = [pre EXCEPT ![t] = Snapshot]
    /\ UNCHANGED <<config, buffer, bufferSize, shouldFlush, finalWriter, env, mw>>

\* The steps of a goroutine that holds the lock
Body(t) ==
    \/ WriteCheck(t)
    \/ WriteDecide(t)
    \/ WriteFlushBuffer(t)
    \/ WriteReset(t)
    \/ WriteDirect(t)
    \/ WriteAppend(t)
    \/ FlushWrite(t)
    \/ FlushReset(t)
    \/ FlushSet(t)
    \/ FinalizeCheck(t)
    \/ FinalizeDecide(t)
    \/ FinalizeWrite(t)
    \/ FinalizeReset(t)
    \/ Unlock(t)

NextLive ==
    \E t \in Threads :
        \/ LiveCall(t)
        \/ LiveLock(t)
        \/ Body(t)

\* A runnable goroutine runs; a goroutine blocked in Lock gets the lock if it
\* is free again and again (sync.Mutex hands the lock to starving waiters)
Fairness ==
    \A t \in Threads : WF_vars(Body(t)) /\ SF_vars(LiveLock(t))

SpecLive == InitLive /\ [][NextLive]_vars /\ Fairness

----------------------------------------------------------------------------
\* Middleware (README.md): one request that is given a sink.  The request
\* goroutine is goroutine 1; the handler may log from any goroutine and returns
\* or panics when the calls it made have returned.  Only requests with
\* BufferingEnabled are modelled: without it no sink is constructed.

\* Number of records the handler logs.
MaxHandlerLogs == 2

StatusCodes == {200, 399, 400, 500}

\* 100 bytes hold all the records of a request, 28 bytes do not
MwBufferSizes == {28, 100}

MwConfigs ==
    [ SaveRate : SaveRates,
      BufferingEnabled : {TRUE},
      FlushOnError : BOOLEAN,
      FlushOnWarn : BOOLEAN,
      BufferSize : MwBufferSizes ]

RequestGoroutine == 1

\* bufferingWriter = NewBufferingWriter(globalWriter, config, requestID);
\* statusCode: 200; success := true
MwStarting == [pc |-> "start", statusCode |-> 200, success |-> TRUE]

InitMw == InitWith(MwConfigs, Reliable, MwStarting)

CallsReturned == \A t \in Threads : pc[t] = "idle"

\* logger.Info().Msg("Request started")
MwLogStarted ==
    /\ mw.pc = "start"
    /\ Enter(RequestGoroutine, WriteFrame(<<"info">>), "w_check")
    /\ mw' = [mw EXCEPT !.pc = "handler"]

\* next.ServeHTTP: the handler logs a record through the logger of the context
MwHandlerLog(t) ==
    /\ mw.pc = "handler"
    /\ Len(hist) < 1 + MaxHandlerLogs
    /\ \E data \in env.records : Enter(t, WriteFrame(data), "w_check")
    /\ UNCHANGED mw

\* next.ServeHTTP: the handler calls responseWriter.WriteHeader(code)
MwWriteHeader ==
    /\ mw.pc = "handler"
    /\ \E code \in StatusCodes : mw' = [mw EXCEPT !.statusCode = code]
    /\ UNCHANGED <<config, buffer, bufferSize, shouldFlush, finalWriter, mu, pc, frame, pre,
                   hist, env>>

\* The handler returning with success computed from `statusCode > 400`
MwHandlerReturnAbove400 ==
    /\ mw.pc = "handler"
    /\ CallsReturned
    /\ mw' = [mw EXCEPT !.pc = "completed", !.success = ~(mw.statusCode > 400)]
    /\ UNCHANGED <<config, buffer, bufferSize, shouldFlush, finalWriter, mu, pc, frame, pre,
                   hist, env>>

\* next.ServeHTTP returns; if wrappedWriter.statusCode >= 400 { success = false }
MwHandlerReturn ==
    /\ mw.pc = "handler"
    /\ CallsReturned
    /\ mw' = [mw EXCEPT !.pc = "completed", !.success = ~(mw.statusCode >= 400)]
    /\ UNCHANGED <<config, buffer, bufferSize, shouldFlush, finalWriter, mu, pc, frame, pre,
                   hist, env>>

\* next.ServeHTTP panics; the deferred function recovers: success = false
MwHandlerPanic ==
    /\ mw.pc = "handler"
    /\ CallsReturned
    /\ mw' = [mw EXCEPT !.pc = "panicked", !.success = FALSE]
    /\ UNCHANGED <<config, buffer, bufferSize, shouldFlush, finalWriter, mu, pc, frame, pre,
                   hist, env>>

\* logger.Info()...Msg("Request completed")
MwLogCompleted ==
    /\ mw.pc = "completed"
    /\ Enter(RequestGoroutine, WriteFrame(<<"info">>), "w_check")
    /\ mw' = [mw EXCEPT !.pc = "finalize"]

\* Finalize called with true whatever the status code was
MwFinalizeAsSuccess ==
    /\ mw.pc = "finalize"
    /\ Enter(RequestGoroutine, [NoFrame EXCEPT !.op = "finalize", !.success = TRUE],
             "fin_check")
    /\ mw' = [mw EXCEPT !.pc = "done"]

\* bufferingWriter.Finalize(success)
MwFinalize ==
    /\ mw.pc = "finalize"
    /\ Enter(RequestGoroutine, [NoFrame EXCEPT !.op = "finalize", !.success = mw.success],
             "fin_check")
    /\ mw' = [mw EXCEPT !.pc = "done"]

\* logger.Error()...Msg("Request panicked")
MwLogPanicked ==
    /\ mw.pc = "panicked"
    /\ Enter(RequestGoroutine, WriteFrame(<<"error">>), "w_check")
    /\ mw' = [mw EXCEPT !.pc = "flush"]

\* The recover block without its call of Flush
MwFlushSkipped ==
    /\ mw.pc = "flush"
    /\ CallsReturned
    /\ mw' = [mw EXCEPT !.pc = "repanic"]
    /\ UNCHANGED <<config, buffer, bufferSize, shouldFlush, finalWriter, mu, pc, frame, pre,
                   hist, env>>

\* bufferingWriter.Flush()
MwFlush ==
    /\ mw.pc = "flush"
    /\ Enter(RequestGoroutine, [NoFrame EXCEPT !.op = "flush"], "fl_write")
    /\ mw' = [mw EXCEPT !.pc = "repanic"]

\* http.Error(wrappedWriter, ..., 500); panic(err)
MwRepanic ==
    /\ mw.pc = "repanic"
    /\ CallsReturned
    /\ mw' = [mw EXCEPT !.pc = "crashed", !.statusCode = 500]
    /\ UNCHANGED <<config, buffer, bufferSize, shouldFlush, finalWriter, mu, pc, frame, pre,
                   hist, env>>

NextMw ==
    \/ MwLogStarted
    \/ MwWriteHeader
    \/ MwHandlerReturn
    \/ MwHandlerPanic
    \/ MwLogCompleted
    \/ MwFinalize
    \/ MwLogPanicked
    \/ MwFlush
    \/ MwRepanic
    \/ \E t \in Threads :
          \/ MwHandlerLog(t)
          \/ WriteCheck(t)
          \/ WriteDecide(t)
          \/ WriteFlushBuffer(t)
          \/ WriteReset(t)
          \/ WriteDirect(t)
          \/ WriteAppend(t)
          \/ FlushWrite(t)
          \/ FlushReset(t)
          \/ FlushSet(t)
          \/ FinalizeCheck(t)
          \/ FinalizeDecide(t)
          \/ FinalizeWrite(t)
          \/ FinalizeReset(t)
          \/ Unlock(t)

SpecMw == InitMw /\ [][NextMw]_vars

----------------------------------------------------------------------------
\* Vocabulary of the properties

\* Goroutine t has executed the whole body of a call of op and still holds the lock
Done(t, op) == pc[t] = "unlock" /\ frame[t].op = op

\* The records passed to Write so far, in the order the calls took the lock
Submitted ==
    LET w == SelectSeq(hist, LAMBDA c : c.op = "write")
    IN  [i \in 1..Len(w) |-> w[i].p]

NoFinalizeYet == \A i \in 1..Len(hist) : hist[i].op # "finalize"

Quiescent == \A t \in Threads : pc[t] = "idle"

\* What a flush-then-write sequence adds to the final writer
FlushThenWrite(t) ==
    pre[t].finalWriter
        \o (IF BufLen(pre[t].buffer) > 0 THEN <<pre[t].buffer>> ELSE <<>>)
        \o << <<frame[t].p>> >>

\* The severity condition of a record, stated on its classified level
Triggers(data) ==
    LET level == parseLogLevel(data)
    IN  \/ level \in {"error", "fatal", "panic"} /\ config.FlushOnError
        \/ level = "warn" /\ config.FlushOnWarn

\* The call of goroutine t found the sink unflushed with bytes in its buffer
EnteredBuffering(t) == ~pre[t].shouldFlush /\ BufLen(pre[t].buffer) > 0

----------------------------------------------------------------------------
\* C1: Finalize(false) on an unflushed sink with a non-empty buffer writes the
\* buffer to the final writer in one call, whatever SaveRate is: the final writer
\* gains exactly the buffered records, in arrival order, each once.
C1_FailureAlwaysPersists ==
    \A t \in Threads :
        (Done(t, "finalize") /\ ~frame[t].success /\ EnteredBuffering(t))
            => /\ finalWriter = Append(pre[t].finalWriter, pre[t].buffer)
               /\ buffer = <<>>

C1_Witness ==
    \E t \in Threads :
        /\ Done(t, "finalize") /\ ~frame[t].success /\ EnteredBuffering(t)
        /\ config.SaveRate = 0
        /\ Len(pre[t].buffer) = 2
        /\ finalWriter = <<pre[t].buffer>>

\* C2: no record reaches the final writer twice, through whatever paths.
C2_AtMostOnce ==
    LET out == Flat(finalWriter)
    IN  \A i, j \in 1..Len(out) : i # j => out[i].id # out[j].id

C2_Witness ==
    /\ Quiescent
    /\ Len(finalWriter) = 2
    /\ Len(finalWriter[1]) = 1
    /\ hist[Len(hist)].op = "flush"

\* C3: after writes on a fresh sink and a forced flush (Flush, a triggering
\* write or an overflowing write), the final writer holds exactly the records
\* submitted, in the order submitted.
C3_OrderPreserved ==
    (Quiescent /\ shouldFlush /\ NoFinalizeYet) => Flat(finalWriter) = Submitted

C3_Witness ==
    /\ Quiescent /\ shouldFlush /\ NoFinalizeYet
    /\ Len(Submitted) = 3
    /\ Len(finalWriter[1]) = 2

\* C4: once shouldFlush is set no step resets it and no step appends to the
\* buffer, and every Write that finds it set forwards its record directly.
C4_FlushedMonotonic ==
    /\ [][shouldFlush => (shouldFlush' /\ (buffer' = buffer \/ buffer' = <<>>))]_vars
    /\ [](\A t \in Threads :
            (Done(t, "write") /\ pre[t].shouldFlush)
                => /\ finalWriter = Append(pre[t].finalWriter, <<frame[t].p>>)
                   /\ buffer = <<>>)

C4_Witness ==
    \E t \in Threads :
        /\ Done(t, "write") /\ pre[t].shouldFlush
        /\ ~Triggers(frame[t].p.data)
        /\ Len(hist) = 3 /\ hist[2].op = "flush"
        /\ Len(pre[t].finalWriter) = 1
        /\ finalWriter = <<pre[t].finalWriter[1], <<frame[t].p>> >>

\* C5: a Write on an unflushed sink whose record triggers (error, fatal or panic
\* with FlushOnError, warn with FlushOnWarn) sends the buffer and then the record
\* to the final writer and sets shouldFlush; one that neither triggers nor
\* overflows writes nothing and appends the record to the buffer.
C5_SeverityTrigger ==
    \A t \in Threads :
        (Done(t, "write") /\ ~pre[t].shouldFlush)
            => LET data == frame[t].p.data
               IN  /\ Triggers(data)
                        => /\ finalWriter = FlushThenWrite(t)
                           /\ shouldFlush
                           /\ buffer = <<>>
                   /\ (~Triggers(data)
                        /\ pre[t].bufferSize + RecLen(data) <= config.BufferSize)
                        => /\ finalWriter = pre[t].finalWriter
                           /\ ~shouldFlush
                           /\ buffer = Append(pre[t].buffer, frame[t].p)

C5_Witness ==
    \E t \in Threads :
        /\ Done(t, "write") /\ EnteredBuffering(t)
        /\ config.FlushOnError /\ ~config.FlushOnWarn
        /\ parseLogLevel(frame[t].p.data) = "fatal"
        /\ \E i \in 1..Len(pre[t].buffer) :
              parseLogLevel(pre[t].buffer[i].data) = "warn"
        /\ shouldFlush

\* C6: a Write on an unflushed sink whose record does not trigger overflows
\* exactly when bufferSize + len(p) > BufferSize; on overflow the buffer and then
\* the record reach the final writer and shouldFlush is set, otherwise the record
\* is appended to the buffer and bufferSize grows by its length.
C6_Overflow ==
    \A t \in Threads :
        (Done(t, "write") /\ ~pre[t].shouldFlush /\ ~Triggers(frame[t].p.data))
            => IF pre[t].bufferSize + RecLen(frame[t].p.data) > config.BufferSize
               THEN /\ finalWriter = FlushThenWrite(t)
                    /\ shouldFlush
                    /\ buffer = <<>>
               ELSE /\ finalWriter = pre[t].finalWriter
                    /\ ~shouldFlush
                    /\ buffer = Append(pre[t].buffer, frame[t].p)
                    /\ bufferSize = pre[t].bufferSize + RecLen(frame[t].p.data)

C6_Witness ==
    \E t \in Threads :
        /\ Done(t, "write") /\ EnteredBuffering(t) /\ ~Triggers(frame[t].p.data)
        /\ pre[t].bufferSize = config.BufferSize
        /\ Len(pre[t].buffer) = 2
        /\ shouldFlush

\* C7: with SaveRate = 0, Finalize(true) on an unflushed sink with a non-empty
\* buffer writes nothing to the final writer.
C7_ZeroRateNeverPersists ==
    \A t \in Threads :
        (Done(t, "finalize") /\ frame[t].success /\ EnteredBuffering(t)
            /\ config.SaveRate = 0)
            => finalWriter = pre[t].finalWriter

\* C8: with SaveRate = 100, Finalize(true) on an unflushed sink with a non-empty
\* buffer writes the whole buffer, whatever the random source yields.
C8_FullRateAlwaysPersists ==
    \A t \in Threads :
        (Done(t, "finalize") /\ frame[t].success /\ EnteredBuffering(t)
            /\ config.SaveRate = 100)
            => finalWriter = Append(pre[t].finalWriter, pre[t].buffer)

C8_Witness ==
    \E t \in Threads :
        /\ Done(t, "finalize") /\ frame[t].success /\ EnteredBuffering(t)
        /\ config.SaveRate = 100 /\ config.BufferingEnabled
        /\ Len(pre[t].buffer) = 2
        /\ finalWriter = <<pre[t].buffer>>

\* C9: Finalize on a sink whose shouldFlush is set writes nothing and changes no
\* field, and a Flush on such a sink writes nothing either.
C9_FinalizeAfterFlushNoOp ==
    \A t \in Threads :
        /\ (Done(t, "finalize") /\ pre[t].shouldFlush)
              => /\ finalWriter = pre[t].finalWriter
                 /\ buffer = pre[t].buffer
                 /\ bufferSize = pre[t].bufferSize
                 /\ shouldFlush
        /\ (Done(t, "flush") /\ pre[t].shouldFlush)
              => finalWriter = pre[t].finalWriter

C9_Witness ==
    \E t \in Threads :
        /\ Done(t, "finalize") /\ pre[t].shouldFlush
        /\ ~frame[t].success
        /\ Len(hist) = 3 /\ hist[2].op = "flush"
        /\ Len(finalWriter) = 1

\* C10: the bodies of concurrent calls never overlap, so the test of shouldFlush
\* and the change of the buffer are one atomic step: the final writer receives
\* the records in the order their calls took the lock, buffered records before
\* the record that flushed them and before every record forwarded directly, and
\* none of them twice.
C10_AtomicUnderLock ==
    LET out == Flat(finalWriter)
    IN  /\ \A t, u \in Threads : (pc[t] # "idle" /\ pc[u] # "idle") => t = u
        /\ \A t \in Threads : pc[t] # "idle" => mu = t
        /\ \A i \in 1..Len(out) :
              /\ out[i].id \in 1..Len(hist)
              /\ hist[out[i].id].op = "write"
              /\ hist[out[i].id].p = out[i]
        /\ \A i, j \in 1..Len(out) : i < j => out[i].id < out[j].id

C10_Witness ==
    /\ \E t \in Threads : Done(t, "write") /\ mu = t /\ t # 1
    /\ Len(hist) = 3 /\ \A i \in 1..3 : hist[i].op = "write"
    /\ Triggers(hist[2].p.data) /\ Triggers(hist[3].p.data)
    /\ Len(finalWriter) = 3
    /\ finalWriter[1] = <<hist[1].p>>

\* C11: with BufferingEnabled = false every Write forwards its record to the
\* final writer at once and holds nothing in the buffer.
C11_DisabledForwardsAtOnce ==
    \A t \in Threads :
        (Done(t, "write") /\ ~config.BufferingEnabled)
            => /\ finalWriter = Append(pre[t].finalWriter, <<frame[t].p>>)
               /\ buffer = <<>>

\* C12: between calls, while shouldFlush is false, bufferSize equals the number
\* of bytes in the buffer.
C12_SizeMatchesBuffer ==
    (Quiescent /\ ~shouldFlush) => bufferSize = BufLen(buffer)

\* C13 as claimed: a Flush on a sink that is flushed already or whose buffer is
\* empty writes nothing and changes no field.
C13_FlushOnEmptyChangesNothing ==
    \A t \in Threads :
        (Done(t, "flush") /\ (pre[t].shouldFlush \/ BufLen(pre[t].buffer) = 0))
            => /\ finalWriter = pre[t].finalWriter
               /\ buffer = pre[t].buffer
               /\ bufferSize = pre[t].bufferSize
               /\ shouldFlush = pre[t].shouldFlush

\* C13 as amended: Flush writes the buffered bytes, if any, in one call, leaves
\* the buffer empty and shouldFlush set; on a flushed or empty sink it calls the
\* final writer not at all and changes no field but shouldFlush, which it sets.
C13_FlushIdempotent ==
    \A t \in Threads :
        Done(t, "flush")
            => /\ finalWriter =
                    IF BufLen(pre[t].buffer) > 0
                    THEN Append(pre[t].finalWriter, pre[t].buffer)
                    ELSE pre[t].finalWriter
               /\ buffer = <<>>
               /\ shouldFlush
               /\ bufferSize = pre[t].bufferSize
               /\ pre[t].shouldFlush => finalWriter = pre[t].finalWriter

C13_Witness ==
    \E t \in Threads :
        /\ Done(t, "flush") /\ pre[t].shouldFlush
        /\ Len(hist) = 3 /\ hist[1].op = "write" /\ hist[2].op = "flush"
        /\ Len(finalWriter) = 1

\* C15: the buffer never holds more than BufferSize bytes (BufferSize >= 0).
C15_BufferBounded ==
    config.BufferSize >= 0 => BufLen(buffer) <= config.BufferSize

C15_Witness ==
    /\ config.BufferSize > 0
    /\ BufLen(buffer) = config.BufferSize
    /\ Len(buffer) = 2

\* C20: a Write that returns with shouldFlush still false has left the final
\* writer untouched, appended its record to the buffer and added the record's
\* length to bufferSize.
C20_BufferedWriteFrame ==
    \A t \in Threads :
        (Done(t, "write") /\ ~shouldFlush)
            => /\ finalWriter = pre[t].finalWriter
               /\ buffer = Append(pre[t].buffer, frame[t].p)
               /\ bufferSize = pre[t].bufferSize + RecLen(frame[t].p.data)

C20_Witness ==
    \E t \in Threads :
        /\ Done(t, "write") /\ ~shouldFlush
        /\ Len(buffer) = 2
        /\ finalWriter = <<>>

\* C14: a Write during which a call of the final writer failed, the write of the
\* buffered bytes included, returns an error.
C14_WriteReportsFailure ==
    \A t \in Threads :
        (Done(t, "write") /\ (frame[t].bufErr \/ frame[t].err)) => frame[t].err

\* C18: a call whose write of the buffered bytes failed leaves the sink as a
\* successful one does (buffer empty, bufferSize as before, shouldFlush set by
\* Write and Flush and left alone by Finalize), and no record is sent again.
C18_FailedFlushStillClears ==
    /\ \A t \in Threads :
          (pc[t] = "unlock" /\ frame[t].bufErr)
              => /\ buffer = <<>>
                 /\ bufferSize = pre[t].bufferSize
                 /\ shouldFlush = (frame[t].op \in {"write", "flush"})
    /\ LET out == Flat(finalWriter)
       IN  \A i, j \in 1..Len(out) : i < j => out[i].id < out[j].id

C18_Witness ==
    \E t \in Threads :
        /\ Done(t, "flush") /\ frame[t].bufErr
        /\ Len(pre[t].buffer) = 2
        /\ finalWriter = << <<pre[t].buffer[1]>> >>

\* C19 as claimed: with BufferSize <= 0 every Write on an unflushed sink forwards
\* its record, buffers nothing and sets shouldFlush.
C19_EveryWriteOverflows ==
    \A t \in Threads :
        (Done(t, "write") /\ ~pre[t].shouldFlush /\ config.BufferSize <= 0)
            => /\ finalWriter = FlushThenWrite(t)
               /\ shouldFlush
               /\ BufLen(buffer) = 0

\* C19 as amended: that holds with BufferSize < 0 for every record and with
\* BufferSize = 0 for every record of at least one byte; an empty record with
\* BufferSize = 0 is appended to the buffer, nothing is written and shouldFlush
\* stays false.
C19_NonEmptyWriteOverflows ==
    \A t \in Threads :
        (Done(t, "write") /\ ~pre[t].shouldFlush /\ config.BufferSize <= 0)
            => IF config.BufferSize < 0 \/ RecLen(frame[t].p.data) > 0
               THEN /\ finalWriter = FlushThenWrite(t)
                    /\ shouldFlush
                    /\ BufLen(buffer) = 0
               ELSE /\ finalWriter = pre[t].finalWriter
                    /\ ~shouldFlush
                    /\ buffer = Append(pre[t].buffer, frame[t].p)

C19_Witness ==
    \E t \in Threads :
        /\ Done(t, "write") /\ ~pre[t].shouldFlush /\ config.BufferSize = 0
        /\ frame[t].p.data = <<"x">>
        /\ Len(pre[t].buffer) = 1
        /\ finalWriter = << <<frame[t].p>> >>
        /\ shouldFlush

\* The positions in hist of the calls of op
CallsOf(op) == {i \in 1..Len(hist) : hist[i].op = op}

\* The request returned normally and Finalize has returned
MwCompleted == mw.pc = "done" /\ Quiescent

\* On normal completion: Finalize was called once, as the last call, after the
\* write of "Request completed", with success true iff the status code is
\* below 400, and Flush was not called
MwFinalizedOnce ==
    MwCompleted
        => /\ CallsOf("finalize") = {Len(hist)}
           /\ CallsOf("flush") = {}
           /\ hist[Len(hist)].success = (mw.statusCode < 400)

\* C16 as claimed: on normal completion the above, and after a panic of the
\* handler Flush is called and then Finalize.
C16_FlushThenFinalizeOnPanic ==
    /\ MwFinalizedOnce
    /\ mw.pc = "crashed"
          => \E i \in CallsOf("flush") : \E j \in CallsOf("finalize") : i < j

\* C16 as amended: on normal completion the above; after a panic of the handler
\* Flush is called once, as the last call, right after the write of the "Request
\* panicked" record, and Finalize is not called at all.
C16_WrapperProtocol ==
    /\ MwFinalizedOnce
    /\ Cardinality(CallsOf("finalize")) <= 1
    /\ mw.pc = "crashed"
          => /\ CallsOf("flush") = {Len(hist)}
             /\ CallsOf("finalize") = {}
             /\ hist[Len(hist) - 1].op = "write"
             /\ hist[Len(hist) - 1].p.data = <<"error">>

C16_Witness ==
    /\ MwCompleted
    /\ mw.statusCode = 400
    /\ Len(hist) = 5
    /\ ~hist[5].success

\* C17: a request that completes with a status code >= 400 has all its records,
\* from "Request started" through "Request completed", in the global writer,
\* each once and in logging order, for every SaveRate and both flush flags.
C17_FailedRequestFullyLogged ==
    (MwCompleted /\ mw.statusCode >= 400) => Flat(finalWriter) = Submitted

C17_Witness ==
    /\ MwCompleted /\ mw.statusCode >= 400
    /\ config.SaveRate = 0
    /\ Len(Submitted) = 4
    /\ finalWriter = <<Submitted>>

\* C21: Finalize on an unflushed sink leaves the buffer empty and shouldFlush
\* false; a later Write whose record neither triggers nor exceeds BufferSize
\* together with the bytes in the buffer is appended to the buffer, not
\* forwarded; and no record reaches the final writer twice.
C21_FinalizeKeepsBuffering ==
    /\ \A t \in Threads :
          /\ (Done(t, "finalize") /\ ~pre[t].shouldFlush)
                => (buffer = <<>> /\ ~shouldFlush)
          /\ (Done(t, "write") /\ ~pre[t].shouldFlush
                /\ CallsOf("finalize") # {}
                /\ ~Triggers(frame[t].p.data)
                /\ BufLen(pre[t].buffer) + RecLen(frame[t].p.data) <= config.BufferSize)
                => /\ buffer = Append(pre[t].buffer, frame[t].p)
                   /\ finalWriter = pre[t].finalWriter
                   /\ ~shouldFlush
    /\ LET out == Flat(finalWriter)
       IN  \A i, j \in 1..Len(out) : i # j => out[i] # out[j]

\* The levels in the order the specification lists them
LevelOrder == <<"trace", "debug", "info", "warn", "error", "fatal", "panic">>

Occurs(data, marker) == marker \in {data[i] : i \in 1..Len(data)}

\* The first level of LevelOrder whose marker occurs in the record; info
\* when none does
FirstListedLevel(data) ==
    LET found == {i \in 1..Len(LevelOrder) : Occurs(data, LevelOrder[i])}
    IN  IF found = {} THEN "info"
        ELSE LevelOrder[CHOOSE i \in found : \A j \in found : i <= j]

\* C22: parseLogLevel returns the first level, in the order trace, debug,
\* info, warn, error, fatal, panic, whose marker occurs in the record, and
\* info when none occurs; so a record holding the info marker and an error
\* marker counts as info, a record with no or an unknown level field counts
\* as info, and the first Write of such a record buffers it even when
\* FlushOnError is set.
C22_ClassifyFirstListed ==
    \A t \in Threads :
        (pc[t] # "idle" /\ frame[t].op = "write") =>
            LET data == frame[t].p.data
                level == parseLogLevel(data)
            IN  /\ level = FirstListedLevel(data)
                /\ (\A i \in 1..Len(LevelOrder) : ~Occurs(data, LevelOrder[i]))
                      => level = "info"
                /\ (Occurs(data, "info") /\ ~Occurs(data, "trace") /\ ~Occurs(data, "debug"))
                      => level = "info"
                /\ Done(t, "write") =>
                      /\ shouldFlush = ShouldFlushNow(config, FirstListedLevel(data))
                      /\ (level = "info") =>
                            (buffer = <<frame[t].p>> /\ finalWriter = <<>>)

C22_Witness ==
    \E t \in Threads :
        /\ Done(t, "write")
        /\ frame[t].p.data = <<"error", "info">>
        /\ config.FlushOnError
        /\ buffer = <<frame[t].p>>
        /\ ~shouldFlush

\* C23: with BufferingEnabled false ShouldSaveOnSuccess is true for every
\* SaveRate, zero and negative included, so Finalize(true) of a sink that has
\* not flushed and holds records writes them to the final writer in one call.
C23_DisabledAlwaysPersists ==
    /\ ~config.BufferingEnabled => \A r \in RandVals : ShouldSaveOnSuccess(config, r)
    /\ \A t \in Threads :
          (~config.BufferingEnabled /\ frame[t].op = "finalize" /\ frame[t].success
             /\ EnteredBuffering(t)) =>
                /\ pc[t] \in {"fin_write", "fin_reset", "unlock"} => frame[t].shouldSave
                /\ pc[t] \in {"fin_reset", "unlock"} =>
                      finalWriter = Append(pre[t].finalWriter, pre[t].buffer)

C23_Witness ==
    \E t \in Threads :
        /\ Done(t, "finalize")
        /\ frame[t].success
        /\ ~config.BufferingEnabled
        /\ config.SaveRate = -1
        /\ Len(pre[t].buffer) = 2
        /\ finalWriter = <<pre[t].buffer>>

\* The recover block is about to re-raise the panic, or has done so
MwReraising == mw.pc = "crashed" \/ (mw.pc = "repanic" /\ CallsReturned)

\* C24: when the handler panics, by the time the recover block re-raises the
\* panic the final writer holds every record logged before the panic and then
\* the "Request panicked" error record, in order and each once, whatever
\* FlushOnError is; Finalize was not called and the buffer is empty.
C24_PanicFullyLogged ==
    MwReraising =>
        /\ Flat(finalWriter) = Submitted
        /\ Len(Submitted) >= 2
        /\ Submitted[1].data = <<"info">>
        /\ Submitted[Len(Submitted)].data = <<"error">>
        /\ \A i, j \in 1..Len(Submitted) : i # j => Submitted[i] # Submitted[j]
        /\ buffer = <<>>
        /\ CallsOf("finalize") = {}

C24_Witness ==
    /\ mw.pc = "repanic"
    /\ CallsReturned
    /\ ~config.FlushOnError
    /\ Len(Submitted) = 3
    /\ finalWriter = <<Submitted>>
    /\ buffer = <<>>

\* The records of the Write calls that took the lock before call number n
WrittenBefore(n) ==
    LET writes == SelectSeq(SubSeq(hist, 1, n - 1), LAMBDA f : f.op = "write")
    IN  [i \in 1..Len(writes) |-> writes[i].p]

\* C26: goroutines call Write and then one of them calls Finalize(false),
\* with no Flush and no other Finalize; when that Finalize returns the final
\* writer holds every record whose Write returned before Finalize took the
\* lock, each once and in the order the Writes took the lock.
C26_FailingFinalizeKeepsAll ==
    \A t \in Threads :
        (Done(t, "finalize") /\ ~frame[t].success
           /\ CallsOf("finalize") = {Len(hist)} /\ CallsOf("flush") = {}) =>
              LET out == Flat(finalWriter)
              IN  /\ out = WrittenBefore(Len(hist))
                  /\ \A i, j \in 1..Len(out) : i # j => out[i] # out[j]
                  /\ buffer = <<>>

C26_Witness ==
    \E t \in Threads :
        /\ Done(t, "finalize")
        /\ ~frame[t].success
        /\ CallsOf("write") = {1, 2}
        /\ config.SaveRate = 0
        /\ ~pre[t].shouldFlush
        /\ Len(pre[t].buffer) = 2
        /\ finalWriter = <<WrittenBefore(3)>>

\* C25: with finitely many goroutines calling Write, Flush and Finalize, a
\* final writer that returns and a fair scheduler, every call returns: the
\* lock is free whenever no call is under way, it is always held by a
\* goroutine inside a method or free, and a goroutine that has called a
\* method, blocked in Lock or past it, gets back to its caller.
C25_EveryCallReturns ==
    /\ [](mu = NoThread \/ pc[mu] \notin {"idle", "lock"})
    /\ []((\A t \in Threads : pc[t] \in {"idle", "lock"}) => mu = NoThread)
    /\ \A t \in Threads : (pc[t] # "idle") ~> (pc[t] = "idle")

C25_Witness ==
    \E t, u \in Threads :
        /\ mu = t
        /\ pc[t] = "fin_decide"
        /\ frame[t].success
        /\ pc[u] = "lock"
        /\ frame[u].op = "finalize"

====
